---- MODULE Spec2Model ----
(***************************************************************************)
(* A model of sauron's DOM patching (src/dom/apply_patches.rs) and of its  *)
(* Task abstraction (crates/sauron-core/src/dom/task.rs).                  *)
(*                                                                         *)
(* The live tree is a heap: a sequence of node records addressed by their  *)
(* position, so that a handle found by find_nodes keeps naming the same    *)
(* node after the node was detached.  patch() is a state machine: one      *)
(* action for find_nodes, one for each iteration of the loop over the      *)
(* patches, one for the final Ok(..).                                      *)
(***************************************************************************)
EXTENDS Integers, Sequences, FiniteSets, TLC

VARIABLES
    dom,                    \* the heap of host nodes: Seq(node record)
    root,                   \* the node that is the root of the live tree
    program,                \* TRUE: Some(program), FALSE: None (a dumb patch)
    old_closures,           \* ActiveClosure of the caller: vdom_id -> Seq(event)
    patches,                \* the patch list handed to patch()
    pc,                     \* "start" | "loop" | "done"
    i,                      \* position of the loop over patches (1-based)
    element_nodes_to_patch, \* node_idx -> element handle
    text_nodes_to_patch,    \* node_idx -> text handle
    active_closures,        \* closures added during this patch() call
    outcome,                \* "none" | "ok" | "err" | "panic"
    returned,               \* the map in Ok(..), empty unless outcome = "ok"
    fault,                  \* the panic message or the failed host call
    oplog,                  \* host calls of the last loop iteration, in order
    next_vdom_id,           \* the counter create_dom_node draws vdom ids from
    created,                \* history: closures made by create_dom_node in this call
    was_live,               \* history: the nodes that have been part of the live tree
    target,                 \* the declarative tree the patches were diffed towards
    tree0,                  \* history: the heap and the root as patch() was called
    task_msg,               \* the output of the future given to Task::single
    task_maps,              \* how many map_msg calls wrapped the task
    task_future,            \* "async" (an async block) | "other" (another Future impl)
    task_state,             \* the future: "pending" | "ready" | "completed"
    task_caller,            \* the consumer: "idle" | "awaiting" | "panicked"
    task_results,           \* what the next() calls returned, in order
    task_repolls,           \* polls of the future after it had completed
    rec_source,             \* the values the producer of a recurring task sends
    rec_sent,               \* how many of them the producer has sent
    rec_closed,             \* the producer dropped its sender
    rec_chan,               \* layer -> queue of the unbounded channel of that layer
    rec_relay,              \* layer -> "running" | "ended" | "panicked" (relay loops)
    rec_consumer,           \* "none" | "live" | "dropped" | "ended"
    rec_delivered,          \* what next() handed to the consumer, in order
    view,                   \* the declarative tree handed to render()
    buffer                  \* what render() wrote: a sequence of tokens

domVars == <<dom, root, program, old_closures, patches, pc, i,
             element_nodes_to_patch, text_nodes_to_patch, active_closures,
             outcome, returned, fault, oplog, next_vdom_id, created, was_live,
             target, tree0>>

taskVars == <<task_msg, task_maps, task_future, task_state, task_caller,
              task_results, task_repolls>>

relayVars == <<rec_source, rec_sent, rec_closed, rec_chan, rec_relay,
               rec_consumer, rec_delivered>>

renderVars == <<view, buffer>>

vars == <<domVars, taskVars, relayVars, renderVars>>

-----------------------------------------------------------------------------
(* Bounds of the model.                                                    *)

MaxKids == 2
MaxPatches == 2
MaxIdx == 2
MaxFail == 2

-----------------------------------------------------------------------------
(* Declarative tree model: Node::Element / Node::Text, and the attribute   *)
(* values.                                                                 *)

EmptyMap == [x \in {} |-> 0]

Simple(v) == [type |-> "simple", v |-> v]
EventCallback == [type |-> "event", v |-> ""]
\* Value::Bool, held as the text Value::to_string gives for it.
SimpleBool(b) == [type |-> "bool", v |-> IF b THEN "true" ELSE "false"]
FunctionCall(f) == [type |-> "function", v |-> f]
Attr(n, v) == [name |-> n, value |-> v]

VText(s) == [kind |-> "text", tag |-> "", text |-> s, attrs |-> <<>>, children |-> <<>>]
VElement(t, as, cs) == [kind |-> "element", tag |-> t, text |-> "", attrs |-> as, children |-> cs]
\* Nodes only the host can hold: a comment, and a kind the code does not know.
HComment == [kind |-> "comment", tag |-> "", text |-> "", attrs |-> <<>>, children |-> <<>>]
HOther == [kind |-> "other", tag |-> "", text |-> "", attrs |-> <<>>, children |-> <<>>]

RECURSIVE SeqsUpTo(_, _)
SeqsUpTo(S, n) ==
    IF n = 0 THEN {<<>>}
    ELSE LET shorter == SeqsUpTo(S, n - 1)
         IN shorter \cup {Append(s, x) : s \in {t \in shorter : Len(t) = n - 1}, x \in S}

Range(s) == {s[k] : k \in DOMAIN s}

-----------------------------------------------------------------------------
(* Host nodes.                                                             *)

HostNode(k, t, txt) ==
    [kind |-> k, tag |-> t, text |-> txt, attrs |-> EmptyMap, vdom_id |-> 0,
     kids |-> <<>>, listeners |-> {}, value |-> "", checked |-> FALSE]

\* The parent of n in heap d, 0 when n is detached (or the root).
Parent(d, n) ==
    IF \E p \in DOMAIN d : n \in Range(d[p].kids)
    THEN CHOOSE p \in DOMAIN d : n \in Range(d[p].kids)
    ELSE 0

\* The nodes of the tree under n.
RECURSIVE Reach(_, _)
Reach(d, n) == {n} \cup UNION {Reach(d, d[n].kids[k]) : k \in DOMAIN d[n].kids}

SetAttr(a, n, v) == [x \in DOMAIN a \cup {n} |-> IF x = n THEN v ELSE a[x]]
DelAttr(a, n) == [x \in DOMAIN a \ {n} |-> a[x]]
MapExtend(m, new) == [x \in DOMAIN m \cup DOMAIN new |-> IF x \in DOMAIN new THEN new[x] ELSE m[x]]
MapRemove(m, k) == [x \in DOMAIN m \ {k} |-> m[x]]

\* The events of an element's EventCallback attributes, in attribute order.
RECURSIVE EventsOf(_)
EventsOf(as) ==
    IF as = <<>> THEN <<>>
    ELSE IF as[1].value.type = "event" THEN <<as[1].name>> \o EventsOf(Tail(as))
    ELSE EventsOf(Tail(as))

RECURSIVE PlainAttrs(_, _)
PlainAttrs(as, acc) ==
    IF as = <<>> THEN acc
    ELSE IF as[1].value.type = "simple"
         THEN PlainAttrs(Tail(as), SetAttr(acc, as[1].name, as[1].value.v))
         ELSE PlainAttrs(Tail(as), acc)

(* The machine state threaded through one call: the heap, the root, the    *)
(* caller's registry, the id counter, the countdown to the failing host    *)
(* call (1: the next fallible call fails, 0: none does), the result so     *)
(* far, the closures of the nodes created, and the node last created.      *)
St(d, r, reg, nv, f) ==
    [dom |-> d, root |-> r, reg |-> reg, nv |-> nv, f |-> f, out |-> "ok",
     fault |-> "", log |-> <<>>, new |-> EmptyMap, node |-> 0]

Log(st, what) == [st EXCEPT !.log = Append(@, what)]
Panic(st, msg) == [Log(st, "panic") EXCEPT !.out = "panic", !.fault = msg]

(* CreatedNode::create_dom_node_opt: builds the live subtree of a          *)
(* declarative node.  With a program, an element that has event callbacks  *)
(* draws a vdom id, carries it as its marker attribute, gets its listeners *)
(* registered and contributes vdom_id -> events to the closures.  A        *)
(* comment separates two adjacent text children.                           *)
RECURSIVE create_dom_node(_, _, _)
RECURSIVE create_children(_, _, _, _, _)
create_dom_node(st, prog, v) ==
    LET id == Len(st.dom) + 1 IN
    IF v.kind # "element"
    THEN [st EXCEPT !.dom = Append(@, HostNode(v.kind, "", v.text)), !.node = id]
    ELSE LET evs == EventsOf(v.attrs)
             wired == prog /\ evs # <<>>
             vid == st.nv
             el == [HostNode("element", v.tag, "") EXCEPT
                      !.attrs = PlainAttrs(v.attrs, EmptyMap),
                      !.vdom_id = IF wired THEN vid ELSE 0,
                      !.listeners = IF wired THEN {<<vid, evs[k]>> : k \in DOMAIN evs} ELSE {}]
             s1 == [st EXCEPT !.dom = Append(@, el),
                              !.nv = IF wired THEN @ + 1 ELSE @,
                              !.new = IF wired THEN MapExtend(@, vid :> evs) ELSE @]
             s2 == create_children(s1, prog, id, v.children, 1)
         IN [s2 EXCEPT !.node = id]
create_children(st, prog, parent, cs, k) ==
    IF k > Len(cs) THEN st
    ELSE LET sep == k > 1 /\ cs[k - 1].kind = "text" /\ cs[k].kind = "text"
             s0 == IF sep
                   THEN [st EXCEPT !.dom = Append(@, HostNode("comment", "", "")),
                                   !.dom[parent].kids = Append(@, Len(st.dom) + 1)]
                   ELSE st
             s1 == create_dom_node(s0, prog, cs[k])
             s2 == [s1 EXCEPT !.dom[parent].kids = Append(@, s1.node)]
         IN create_children(s2, prog, parent, cs, k + 1)

-----------------------------------------------------------------------------
(* Patch and its node_idx.                                                 *)

AddAttributes(idx, as) == [kind |-> "AddAttributes", node_idx |-> idx, arg |-> as]
RemoveAttributes(idx, ns) == [kind |-> "RemoveAttributes", node_idx |-> idx, arg |-> ns]
Replace(idx, v) == [kind |-> "Replace", node_idx |-> idx, arg |-> v]
TruncateChildren(idx, n) == [kind |-> "TruncateChildren", node_idx |-> idx, arg |-> n]
AppendChildren(idx, vs) == [kind |-> "AppendChildren", node_idx |-> idx, arg |-> vs]
ChangeText(idx, s) == [kind |-> "ChangeText", node_idx |-> idx, arg |-> s]

-----------------------------------------------------------------------------
(* find_nodes: one traversal that resolves the node_idx of every patch.    *)

RECURSIVE find_nodes_recursive(_, _, _, _)
RECURSIVE find_nodes_children(_, _, _, _, _)
\* Mutant: a comment child takes an index like a text child.
find_nodes_children_counts_comments(d, kids, j, r, nodes_to_find) ==
    IF j > Len(kids) \/ r.panic THEN r
    ELSE LET c == kids[j]
             k == d[c].kind
         IN CASE k = "element" ->
                   LET sub == find_nodes_recursive(d, c, r.idx, nodes_to_find)
                   IN find_nodes_children(d, kids, j + 1,
                          [idx |-> sub.idx, el |-> MapExtend(r.el, sub.el),
                           tx |-> MapExtend(r.tx, sub.tx), panic |-> sub.panic],
                          nodes_to_find)
              [] k = "text" ->
                   find_nodes_children(d, kids, j + 1,
                          [r EXCEPT !.idx = @ + 1,
                                    !.tx = IF r.idx \in nodes_to_find
                                           THEN MapExtend(@, r.idx :> c) ELSE @],
                          nodes_to_find)
              [] k = "comment" ->
                   find_nodes_children(d, kids, j + 1, [r EXCEPT !.idx = @ + 1],
                          nodes_to_find)
              [] OTHER -> find_nodes_children(d, kids, j + 1, r, nodes_to_find)

find_nodes_recursive(d, n, cur, nodes_to_find) ==
    LET hit == cur \in nodes_to_find
        k == d[n].kind
        r0 == [idx |-> cur + 1,
               el |-> IF hit /\ k = "element" THEN (cur :> n) ELSE EmptyMap,
               tx |-> IF hit /\ k = "text" THEN (cur :> n) ELSE EmptyMap,
               panic |-> hit /\ k \notin {"element", "text"}]
    IN IF r0.panic THEN r0 ELSE find_nodes_children(d, d[n].kids, 1, r0, nodes_to_find)
find_nodes_children(d, kids, j, r, nodes_to_find) ==
    IF j > Len(kids) \/ r.panic THEN r
    ELSE LET c == kids[j]
             k == d[c].kind
         IN CASE k = "element" ->
                   LET sub == find_nodes_recursive(d, c, r.idx, nodes_to_find)
                   IN find_nodes_children(d, kids, j + 1,
                          [idx |-> sub.idx, el |-> MapExtend(r.el, sub.el),
                           tx |-> MapExtend(r.tx, sub.tx), panic |-> sub.panic],
                          nodes_to_find)
              [] k = "text" ->
                   find_nodes_children(d, kids, j + 1,
                          [r EXCEPT !.idx = @ + 1,
                                    !.tx = IF r.idx \in nodes_to_find
                                           THEN MapExtend(@, r.idx :> c) ELSE @],
                          nodes_to_find)
              [] OTHER -> find_nodes_children(d, kids, j + 1, r, nodes_to_find)

find_nodes(d, root_node, ps) ==
    find_nodes_recursive(d, root_node, 0, {ps[k].node_idx : k \in DOMAIN ps})

-----------------------------------------------------------------------------
(* Host-tree primitives.  A primitive that web-sys declares as returning   *)
(* Result may fail: the failing call is the one the countdown st.f names.  *)

Countdown(st) == [st EXCEPT !.f = IF @ > 1 THEN @ - 1 ELSE 0]
HostFails(st) == st.f = 1
Throw(st, call) ==
    [Log(st, call \o ":failed") EXCEPT !.out = "err", !.fault = call, !.f = 0]

\* Node.replaceWith: a node without a parent is left alone; the root's
\* parent is the mount point, outside the heap.
replace_with(st, node, new) ==
    IF HostFails(st) THEN Throw(st, "replace_with")
    ELSE LET s == Countdown(Log(st, "replace_with"))
             p == Parent(st.dom, node)
         IN IF node = st.root THEN [s EXCEPT !.root = new]
            ELSE IF p = 0 THEN s
            ELSE [s EXCEPT !.dom[p].kids =
                     [k \in DOMAIN @ |-> IF @[k] = node THEN new ELSE @[k]]]

\* Mutant: the new node becomes the first child.
append_child_first(st, parent, new) ==
    IF HostFails(st) THEN Throw(st, "append_child")
    ELSE [Countdown(Log(st, "append_child")) EXCEPT !.dom[parent].kids = <<new>> \o @]

\* Mutant: the content of every text node is set.
set_node_value_everywhere(st, node, text) ==
    [Log(st, "set_node_value") EXCEPT
        !.dom = [m \in DOMAIN @ |-> IF @[m].kind = "text" THEN [@[m] EXCEPT !.text = text]
                                    ELSE @[m]]]

\* Node.nodeValue = text
set_node_value(st, node, text) ==
    [Log(st, "set_node_value") EXCEPT !.dom[node].text = text]

append_child(st, parent, new) ==
    IF HostFails(st) THEN Throw(st, "append_child")
    ELSE [Countdown(Log(st, "append_child")) EXCEPT !.dom[parent].kids = Append(@, new)]

\* remove_child(..).expect("Unable to remove last child")
remove_child(st, node, child) ==
    IF HostFails(st)
    THEN [Panic(Log(st, "remove_child:failed"), "Unable to remove last child") EXCEPT !.f = 0]
    ELSE [Countdown(Log(st, "remove_child")) EXCEPT !.dom[node].kids =
             SelectSeq(@, LAMBDA c : c # child)]

set_attribute(st, node, name, v) ==
    IF HostFails(st) THEN Throw(st, "set_attribute")
    ELSE [Countdown(Log(st, "set_attribute")) EXCEPT !.dom[node].attrs = SetAttr(@, name, v)]

remove_attribute(st, node, name) ==
    IF HostFails(st) THEN Throw(st, "remove_attribute")
    ELSE [Countdown(Log(st, "remove_attribute")) EXCEPT !.dom[node].attrs = DelAttr(@, name)]

remove_event_listener_with_callback(st, node, event, vid) ==
    IF HostFails(st) THEN Throw(st, "remove_event_listener")
    ELSE [Countdown(Log(st, "remove_event_listener")) EXCEPT
             !.dom[node].listeners = @ \ {<<vid, event>>}]

-----------------------------------------------------------------------------
(* The closure registry: the ids of a subtree, and their retirement.       *)

RECURSIVE get_node_descendant_data_vdom_id(_, _)
RECURSIVE descendant_ids_of_children(_, _, _)
get_node_descendant_data_vdom_id(d, n) ==
    (IF d[n].vdom_id # 0 THEN <<d[n].vdom_id>> ELSE <<>>)
        \o descendant_ids_of_children(d, d[n].kids, 1)
descendant_ids_of_children(d, kids, j) ==
    IF j > Len(kids) THEN <<>>
    ELSE (IF d[kids[j]].kind = "element"
          THEN get_node_descendant_data_vdom_id(d, kids[j]) ELSE <<>>)
             \o descendant_ids_of_children(d, kids, j + 1)

\* for (event, oc) in old_closure.iter(): the listener is removed from
\* `node`, the element remove_event_listeners was called on.
RECURSIVE remove_listeners_of_id(_, _, _, _, _)
remove_listeners_of_id(st, node, vid, events, k) ==
    IF k > Len(events) \/ st.out # "ok" THEN st
    ELSE remove_listeners_of_id(
             remove_event_listener_with_callback(st, node, events[k], vid),
             node, vid, events, k + 1)

RECURSIVE remove_event_listeners_loop(_, _, _, _)
\* Mutant: an id without a registry entry is passed over.
remove_event_listeners_loop_skip_missing(st, node, ids, k) ==
    IF k > Len(ids) \/ st.out # "ok" THEN st
    ELSE LET vdom_id == ids[k] IN
         IF vdom_id \notin DOMAIN st.reg
         THEN remove_event_listeners_loop(st, node, ids, k + 1)
         ELSE LET s1 == remove_listeners_of_id(st, node, vdom_id, st.reg[vdom_id], 1)
              IN IF s1.out # "ok" THEN s1
                 ELSE remove_event_listeners_loop(
                          [Log(s1, "registry_remove") EXCEPT !.reg = MapRemove(@, vdom_id)],
                          node, ids, k + 1)

remove_event_listeners_loop(st, node, ids, k) ==
    IF k > Len(ids) \/ st.out # "ok" THEN st
    ELSE LET vdom_id == ids[k] IN
         IF vdom_id \notin DOMAIN st.reg
         THEN Panic(Log(st, "lookup:failed"), "There is no marked with that vdom_id")
         ELSE LET s1 == remove_listeners_of_id(st, node, vdom_id, st.reg[vdom_id], 1)
              IN IF s1.out # "ok" THEN s1
                 ELSE remove_event_listeners_loop(
                          [Log(s1, "registry_remove") EXCEPT !.reg = MapRemove(@, vdom_id)],
                          node, ids, k + 1)

(* remove_event_listeners.  TruncateChildren hands it last_child cast to   *)
(* &Element unchecked; on a text or comment node the getAttribute call     *)
(* through that handle either finds no marker or throws, depending on the  *)
(* host binding (cast_throws).                                             *)
remove_event_listeners(st, node, cast_throws) ==
    IF st.dom[node].kind # "element" /\ cast_throws
    THEN Panic(Log(st, "get_attribute:failed"), "getAttribute on a node that is no element")
    ELSE remove_event_listeners_loop(Log(st, "remove_event_listeners"), node,
             get_node_descendant_data_vdom_id(st.dom, node), 1)

-----------------------------------------------------------------------------
(* apply_element_patch and apply_text_patch.                               *)

\* Width of usize in the model: the subtraction of TruncateChildren wraps
\* modulo 2^UsizeBits in a build without overflow checks.
UsizeBits == 16
UsizeModulus == 2 ^ UsizeBits

IsValueTag(t) == t \in {"input", "textarea"}

\* AttributeValue::get_simple, Value::to_string and Value::as_bool.
IsSimple(val) == val.type \in {"simple", "bool"}
SimpleString(val) == IF IsSimple(val) THEN val.v ELSE ""
as_bool(val) == val.type = "bool" /\ val.v = "true"

\* set_inner_html: the children are replaced by the parsed markup, here the
\* text the function call value holds (none when empty).
set_inner_html(st, node, txt) ==
    LET s1 == Log(st, "set_inner_html")
    IN IF txt = "" THEN [s1 EXCEPT !.dom[node].kids = <<>>]
       ELSE [s1 EXCEPT !.dom = Append(@, HostNode("text", "", txt)),
                       !.dom[node].kids = <<Len(st.dom) + 1>>]

\* Mutant: an attribute with an empty name is set like any other.
add_attribute_empty_name_set(st, node, attr) ==
    CASE attr.name = "value" ->
            IF IsValueTag(st.dom[node].tag)
            THEN [Log(st, "set_value") EXCEPT !.dom[node].value = SimpleString(attr.value)]
            ELSE st
      [] attr.name = "checked" ->
            IF st.dom[node].tag = "input"
            THEN [Log(st, "set_checked") EXCEPT !.dom[node].checked = as_bool(attr.value)]
            ELSE st
      [] attr.name = "inner_html" ->
            set_inner_html(st, node,
                IF attr.value.type = "function" THEN attr.value.v ELSE "")
      [] OTHER ->
            set_attribute(st, node, attr.name, SimpleString(attr.value))

\* One attribute of AddAttributes.
add_attribute(st, node, attr) ==
    IF attr.name = "" THEN st
    ELSE CASE attr.name = "value" ->
                IF IsValueTag(st.dom[node].tag)
                THEN [Log(st, "set_value") EXCEPT
                         !.dom[node].value = SimpleString(attr.value)]
                ELSE st
           [] attr.name = "checked" ->
                IF st.dom[node].tag = "input"
                THEN [Log(st, "set_checked") EXCEPT
                         !.dom[node].checked = as_bool(attr.value)]
                ELSE st
           [] attr.name = "inner_html" ->
                set_inner_html(st, node,
                    IF attr.value.type = "function" THEN attr.value.v ELSE "")
           [] OTHER ->
                set_attribute(st, node, attr.name, SimpleString(attr.value))

RECURSIVE add_attributes(_, _, _, _)
add_attributes(st, node, attributes, k) ==
    IF k > Len(attributes) \/ st.out # "ok" THEN st
    ELSE add_attributes(add_attribute(st, node, attributes[k]), node, attributes, k + 1)

RECURSIVE remove_attributes(_, _, _, _)
remove_attributes(st, node, names, k) ==
    IF k > Len(names) \/ st.out # "ok" THEN st
    ELSE remove_attributes(remove_attribute(st, node, names[k]), node, names, k + 1)

\* for _index in 0..to_be_remove_len.  Once last_child is a comment every
\* further iteration finds the same comment and changes nothing.
RECURSIVE truncate_loop(_, _, _, _)
truncate_loop(st, node, to_be_remove_len, cast_throws) ==
    IF to_be_remove_len = 0 \/ st.out # "ok" THEN st
    ELSE LET kids == st.dom[node].kids IN
         IF kids = <<>> THEN Panic(st, "No more last child")
         ELSE LET last_child == kids[Len(kids)]
                  s1 == remove_event_listeners(st, last_child, cast_throws)
              IN IF s1.out # "ok" THEN s1
                 ELSE IF s1.dom[last_child].kind = "comment" THEN s1
                 ELSE truncate_loop(remove_child(s1, node, last_child), node,
                                    to_be_remove_len - 1, cast_throws)

truncate_children(st, node, num_children_remaining, overflow_checks, cast_throws) ==
    LET child_count == Len(st.dom[node].kids) IN
    IF num_children_remaining > child_count /\ overflow_checks
    THEN Panic(st, "attempt to subtract with overflow")
    ELSE truncate_loop(st, node,
             (child_count - num_children_remaining) % UsizeModulus, cast_throws)

RECURSIVE append_children(_, _, _, _, _)
append_children(st, prog, parent, new_nodes, k) ==
    IF k > Len(new_nodes) \/ st.out # "ok" THEN st
    ELSE LET c == create_dom_node(Log(st, "create_dom_node"), prog, new_nodes[k])
         IN append_children(append_child(c, parent, c.node), prog, parent, new_nodes, k + 1)

(* The result record carries in .ret the ActiveClosure the function        *)
(* returns in Ok(..).                                                      *)
Returning(st, closures) == [dom |-> st.dom, root |-> st.root, reg |-> st.reg, nv |-> st.nv,
                            out |-> st.out, fault |-> st.fault, log |-> st.log,
                            new |-> st.new,
                            ret |-> IF st.out = "ok" THEN closures ELSE EmptyMap]

apply_element_patch(st, prog, node, patch, overflow_checks, cast_throws) ==
    CASE patch.kind = "AddAttributes" ->
            Returning(add_attributes(st, node, patch.arg, 1), EmptyMap)
      [] patch.kind = "RemoveAttributes" ->
            Returning(remove_attributes(st, node, patch.arg, 1), EmptyMap)
      [] patch.kind = "Replace" ->
            LET c == create_dom_node(Log(st, "create_dom_node"), prog, patch.arg)
                s1 == remove_event_listeners(c, node, cast_throws)
                s2 == IF s1.out = "ok" THEN replace_with(s1, node, c.node) ELSE s1
            IN Returning(s2, c.new)
      [] patch.kind = "TruncateChildren" ->
            Returning(truncate_children(st, node, patch.arg, overflow_checks, cast_throws),
                      EmptyMap)
      [] patch.kind = "AppendChildren" ->
            LET s1 == append_children(st, prog, node, patch.arg, 1)
            IN Returning(s1, s1.new)
      [] patch.kind = "ChangeText" ->
            Returning(Panic(st, "Elements should not receive ChangeText patches."), EmptyMap)

apply_text_patch(st, prog, node, patch) ==
    CASE patch.kind = "ChangeText" ->
            Returning(set_node_value(st, node, patch.arg), EmptyMap)
      [] patch.kind = "Replace" ->
            LET c == create_dom_node(Log(st, "create_dom_node"), prog, patch.arg)
            IN Returning(replace_with(c, node, c.node), EmptyMap)
      [] OTHER ->
            Returning(Panic(st, "Text nodes should only receive ChangeText or Replace patches."),
                      EmptyMap)

\* Mutant: a patch whose node was not found is passed over.
patch_iteration_skip_unfound(st, prog, elements, texts, patch, overflow_checks, cast_throws) ==
    LET patch_node_idx == patch.node_idx IN
    IF patch_node_idx \in DOMAIN elements
    THEN apply_element_patch(st, prog, elements[patch_node_idx], patch,
                             overflow_checks, cast_throws)
    ELSE IF patch_node_idx \in DOMAIN texts
    THEN apply_text_patch(st, prog, texts[patch_node_idx], patch)
    ELSE Returning(st, EmptyMap)

\* Mutant: the node of a patch is looked up in the tree as it is now.
patch_iteration_relocating(st, prog, elements, texts, patch, overflow_checks, cast_throws) ==
    LET patch_node_idx == patch.node_idx
        found == find_nodes(st.dom, st.root, <<patch>>)
    IN
    IF patch_node_idx \in DOMAIN found.el
    THEN apply_element_patch(st, prog, found.el[patch_node_idx], patch,
                             overflow_checks, cast_throws)
    ELSE IF patch_node_idx \in DOMAIN found.tx
    THEN apply_text_patch(st, prog, found.tx[patch_node_idx], patch)
    ELSE Returning(Panic(st, "Getting here means we didn't find the element or next node that we were supposed to patch."),
                   EmptyMap)

\* One iteration of `for patch in patches` in patch().
patch_iteration(st, prog, elements, texts, patch, overflow_checks, cast_throws) ==
    LET patch_node_idx == patch.node_idx IN
    IF patch_node_idx \in DOMAIN elements
    THEN apply_element_patch(st, prog, elements[patch_node_idx], patch,
                             overflow_checks, cast_throws)
    ELSE IF patch_node_idx \in DOMAIN texts
    THEN apply_text_patch(st, prog, texts[patch_node_idx], patch)
    ELSE Returning(Panic(st, "Getting here means we didn't find the element or next node that we were supposed to patch."),
                   EmptyMap)

-----------------------------------------------------------------------------
(* patch(): the inputs, and the state machine of one call.                 *)

ClickDiv(cs) == VElement("div", <<Attr("click", EventCallback)>>, cs)
PlainDiv(cs) == VElement("div", <<>>, cs)

\* The children a live root starts with.
ChildShapes ==
    {VText("a"), HComment, PlainDiv(<<VText("a")>>), ClickDiv(<<ClickDiv(<<>>)>>)}

RootShapes ==
    {PlainDiv(cs) : cs \in SeqsUpTo(ChildShapes, MaxKids)} \cup {VText("a")}

\* The subtrees Replace and AppendChildren build.
NewText == VText("n")
NewElement == ClickDiv(<<>>)

PatchAlphabet ==
    UNION {
        {AddAttributes(idx, <<Attr("class", Simple("x"))>>),
         RemoveAttributes(idx, <<"class">>),
         Replace(idx, NewText),
         Replace(idx, NewElement),
         AppendChildren(idx, <<NewElement, NewText>>),
         ChangeText(idx, "z")}
        \cup {TruncateChildren(idx, n) : n \in 0..MaxKids}
      : idx \in 0..MaxIdx}

PatchLists == SeqsUpTo(PatchAlphabet, MaxPatches)

NoTarget == VText("")

\* No task is in use.
NoTask ==
    /\ task_msg = 0
    /\ task_maps = 0
    /\ task_future = "async"
    /\ task_state = "completed"
    /\ task_caller = "panicked"
    /\ task_results = <<>>
    /\ task_repolls = 0

\* No recurring task is in use.
NoRelay ==
    /\ rec_source = <<>>
    /\ rec_sent = 0
    /\ rec_closed = TRUE
    /\ rec_chan = <<>>
    /\ rec_relay = <<>>
    /\ rec_consumer = "none"
    /\ rec_delivered = <<>>

\* Nothing is being rendered.
NoRender ==
    /\ view = <<>>
    /\ buffer = <<>>

\* The state a call of patch() starts in: the live tree was built from
\* `shape` by the same program, and the caller holds its closures.
Established(shape, prog, ps, goal) ==
    LET built == create_dom_node(St(<<>>, 0, EmptyMap, 1, 0), prog, shape) IN
    /\ dom = built.dom
    /\ root = built.node
    /\ program = prog
    /\ old_closures = built.new
    /\ next_vdom_id = built.nv
    /\ patches = ps
    /\ target = goal
    /\ pc = "start"
    /\ i = 1
    /\ element_nodes_to_patch = EmptyMap
    /\ text_nodes_to_patch = EmptyMap
    /\ active_closures = EmptyMap
    /\ outcome = "none"
    /\ returned = EmptyMap
    /\ fault = ""
    /\ oplog = <<>>
    /\ created = EmptyMap
    /\ was_live = Reach(built.dom, built.node)
    /\ tree0 = [dom |-> built.dom, root |-> built.node]
    /\ NoTask
    /\ NoRelay
    /\ NoRender

InitPatch ==
    \E shape \in RootShapes, ps \in PatchLists :
        Established(shape, TRUE, ps, NoTarget)

(* What the build and the host binding leave open: whether the usize      *)
(* subtraction is checked, and whether a call through a mis-cast handle    *)
(* throws.  With overflow checks on, the unchecked-cast choice is only     *)
(* seen when nothing overflows, so three combinations cover the four.      *)
Builds ==
    {[overflow_checks |-> TRUE, cast_throws |-> TRUE],
     [overflow_checks |-> FALSE, cast_throws |-> TRUE],
     [overflow_checks |-> FALSE, cast_throws |-> FALSE]}

\* let (element_nodes_to_patch, text_nodes_to_patch) = find_nodes(root_node, patches);
FindNodes ==
    /\ pc = "start"
    /\ LET found == find_nodes(dom, root, patches) IN
       /\ element_nodes_to_patch' = found.el
       /\ text_nodes_to_patch' = found.tx
       /\ pc' = IF found.panic THEN "done" ELSE "loop"
       /\ outcome' = IF found.panic THEN "panic" ELSE outcome
       /\ fault' = IF found.panic THEN "Unsupported root node type" ELSE fault
    /\ UNCHANGED <<dom, root, program, old_closures, patches, i, active_closures,
                   returned, oplog, next_vdom_id, created, was_live, target, tree0>>
    /\ UNCHANGED <<taskVars, relayVars, renderVars>>

\* One iteration of the loop: patches[i] is applied; an Err or a panic ends
\* the call, dropping active_closures.
ApplyPatch ==
    /\ pc = "loop"
    /\ i <= Len(patches)
    /\ \E f \in 0..MaxFail, build \in Builds :
          LET r == patch_iteration(St(dom, root, old_closures, next_vdom_id, f), program,
                                   element_nodes_to_patch, text_nodes_to_patch,
                                   patches[i], build.overflow_checks, build.cast_throws)
          IN /\ dom' = r.dom
             /\ root' = r.root
             /\ old_closures' = r.reg
             /\ next_vdom_id' = r.nv
             /\ oplog' = r.log
             /\ fault' = r.fault
             /\ created' = MapExtend(created, r.new)
             /\ was_live' = was_live \cup Reach(r.dom, r.root)
             /\ IF r.out = "ok"
                THEN /\ active_closures' = MapExtend(active_closures, r.ret)
                     /\ i' = i + 1
                     /\ pc' = "loop"
                     /\ outcome' = outcome
                ELSE /\ active_closures' = EmptyMap
                     /\ i' = i
                     /\ pc' = "done"
                     /\ outcome' = r.out
    /\ UNCHANGED <<program, patches, element_nodes_to_patch, text_nodes_to_patch,
                   returned, target, tree0>>
    /\ UNCHANGED <<taskVars, relayVars, renderVars>>

\* Ok(active_closures)
ReturnOk ==
    /\ pc = "loop"
    /\ i > Len(patches)
    /\ pc' = "done"
    /\ outcome' = "ok"
    /\ returned' = active_closures
    /\ UNCHANGED <<dom, root, program, old_closures, patches, i, element_nodes_to_patch,
                   text_nodes_to_patch, active_closures, fault, oplog, next_vdom_id,
                   created, was_live, target, tree0>>
    /\ UNCHANGED <<taskVars, relayVars, renderVars>>

NextPatch == FindNodes \/ ApplyPatch \/ ReturnOk

Init == InitPatch
Next == NextPatch
Spec == Init /\ [][Next]_vars

-----------------------------------------------------------------------------
(* Vocabulary of the properties.                                           *)

Applying == pc = "loop" /\ i <= Len(patches)
CurPatch == patches[i]
Applied == i' = i + 1

LiveNodes == Reach(dom, root)
LiveIds == {dom[n].vdom_id : n \in LiveNodes} \ {0}
RemovedIds == {dom[n].vdom_id : n \in was_live \ LiveNodes} \ {0}

NonComment(d, kids) == SelectSeq(kids, LAMBDA c : d[c].kind # "comment")

MissingIdMsg == "There is no marked with that vdom_id"
UnresolvedMsg == "Getting here means we didn't find the element or next node that we were supposed to patch."
ElementChangeTextMsg == "Elements should not receive ChangeText patches."
TextPatchMsg == "Text nodes should only receive ChangeText or Replace patches."

HostFailures ==
    {"replace_with:failed", "append_child:failed", "remove_child:failed",
     "set_attribute:failed", "remove_attribute:failed", "remove_event_listener:failed"}
HostMutations ==
    {"replace_with", "append_child", "remove_child", "set_attribute", "remove_attribute",
     "remove_event_listener", "registry_remove", "set_node_value", "create_dom_node"}

StructurallyInconsistent(p) ==
    \/ p.node_idx \notin DOMAIN element_nodes_to_patch \cup DOMAIN text_nodes_to_patch
    \/ p.node_idx \in DOMAIN element_nodes_to_patch /\ p.kind = "ChangeText"
    \/ /\ p.node_idx \notin DOMAIN element_nodes_to_patch
       /\ p.node_idx \in DOMAIN text_nodes_to_patch
       /\ p.kind \notin {"ChangeText", "Replace"}

-----------------------------------------------------------------------------
(* C2: after a call that applied only Replace and TruncateChildren         *)
(* patches, all of them successfully, no vdom_id of a removed element is   *)
(* left in the registry (the old registry merged with the returned map),   *)
(* and every vdom_id of an element live in the tree has an entry there.    *)
C2_NoLeakedCallbacks ==
    (/\ pc = "done" /\ outcome = "ok"
     /\ \A k \in DOMAIN patches : patches[k].kind \in {"Replace", "TruncateChildren"})
    => LET merged == DOMAIN old_closures \cup DOMAIN returned
       IN /\ RemovedIds \cap merged = {}
          /\ LiveIds \subseteq merged

(* C3: the map patch() returns holds every callback that was created       *)
(* during the call, for the Replace of an element, the Replace of a text   *)
(* node and AppendChildren alike.                                          *)
C3_ReturnsNewCallbacks ==
    (pc = "done" /\ outcome = "ok")
    => \A id \in DOMAIN created : id \in DOMAIN returned /\ returned[id] = created[id]

(* C5: a TruncateChildren patch that is applied with remaining_count = 0   *)
(* leaves its element without non-comment children, and one applied with   *)
(* remaining_count = the current child count changes neither the tree nor  *)
(* the registry.                                                           *)
C5_TruncateBoundary ==
    [][(/\ Applying /\ Applied
        /\ CurPatch.kind = "TruncateChildren"
        /\ CurPatch.node_idx \in DOMAIN element_nodes_to_patch)
       => LET n == element_nodes_to_patch[CurPatch.node_idx]
          IN /\ CurPatch.arg = 0 => NonComment(dom', dom'[n].kids) = <<>>
             /\ CurPatch.arg = Len(dom[n].kids)
                   => dom' = dom /\ old_closures' = old_closures]_vars

(* C6: a TruncateChildren(remaining_count) patch applied to an element     *)
(* with at least remaining_count non-comment children leaves as its        *)
(* non-comment children exactly the first remaining_count of them, in      *)
(* their order.                                                            *)
C6_TruncateKeepsFirst ==
    [][(/\ Applying /\ Applied
        /\ CurPatch.kind = "TruncateChildren"
        /\ CurPatch.node_idx \in DOMAIN element_nodes_to_patch)
       => LET n == element_nodes_to_patch[CurPatch.node_idx]
              before == NonComment(dom, dom[n].kids)
          IN Len(before) >= CurPatch.arg
                => NonComment(dom', dom'[n].kids) = SubSeq(before, 1, CurPatch.arg)]_vars

(* C7: a patch whose node_idx the locator did not resolve, a ChangeText    *)
(* aimed at an element, or a patch other than ChangeText/Replace aimed at  *)
(* a text node is not applied: the call ends there with a panic, the tree  *)
(* and the registry are as they were, and no later patch is applied.       *)
C7_StructuralInconsistencyIsFatal ==
    [][(Applying /\ StructurallyInconsistent(CurPatch))
       => /\ outcome' = "panic" /\ pc' = "done" /\ i' = i
          /\ fault' \in {UnresolvedMsg, ElementChangeTextMsg, TextPatchMsg}
          /\ dom' = dom /\ root' = root /\ old_closures' = old_closures]_vars

\* A structurally inconsistent patch ended the call, with one patch applied
\* before it.
C7_Witness ==
    /\ pc = "done" /\ outcome = "panic" /\ i = 2
    /\ fault \in {UnresolvedMsg, ElementChangeTextMsg, TextPatchMsg}
    /\ dom[root].kids # <<>>

NoMutationAfter(log, what) ==
    \A k \in DOMAIN log : log[k] = what => \A j \in (k + 1)..Len(log) : log[j] \notin HostMutations

C9_HostFailureIsErrResult ==
    (\E k \in DOMAIN oplog : oplog[k] \in HostFailures)
    => outcome = "err" /\ pc = "done"

-----------------------------------------------------------------------------
(* The locator on live trees that also hold comments and nodes of a kind   *)
(* the code does not know.                                                 *)

LocateChildShapes ==
    {VText("a"), HComment, HOther, PlainDiv(<<VText("a")>>),
     PlainDiv(<<HOther, VText("a")>>)}

LocateRootShapes ==
    {PlainDiv(cs) : cs \in SeqsUpTo(LocateChildShapes, MaxKids)} \cup {VText("a")}

LocatePatchLists ==
    SeqsUpTo({ChangeText(idx, "z") : idx \in 0..(MaxIdx + 2)}, MaxPatches)

InitLocate ==
    \E shape \in LocateRootShapes, ps \in LocatePatchLists :
        Established(shape, TRUE, ps, NoTarget)

SpecLocate == InitLocate /\ [][Next]_vars

\* The numbering of the claim: depth first, pre-order, one index for every
\* element and every text node, none for a comment or an unknown node,
\* which are not descended into.
RECURSIVE PreOrder(_, _)
RECURSIVE PreOrderOfChildren(_, _, _)
PreOrder(d, n) ==
    IF d[n].kind \in {"element", "text"}
    THEN <<n>> \o PreOrderOfChildren(d, d[n].kids, 1)
    ELSE <<>>
PreOrderOfChildren(d, kids, j) ==
    IF j > Len(kids) THEN <<>>
    ELSE PreOrder(d, kids[j]) \o PreOrderOfChildren(d, kids, j + 1)

Located == pc = "loop" /\ i = 1

(* C4: find_nodes returns an element map and a text map with disjoint key  *)
(* sets whose keys are the patch indices that occur in the tree; key k is  *)
(* mapped to the k-th node of the pre-order numbering, an element in the   *)
(* element map and a text node in the text map.                            *)
C4_LocatorFollowsPreOrder ==
    Located =>
       LET order == PreOrder(dom, root)
           wanted == {patches[k].node_idx : k \in DOMAIN patches}
           el == element_nodes_to_patch
           tx == text_nodes_to_patch
       IN /\ DOMAIN el \cup DOMAIN tx = {k \in wanted : k < Len(order)}
          /\ DOMAIN el \cap DOMAIN tx = {}
          /\ \A k \in DOMAIN el : el[k] = order[k + 1] /\ dom[el[k]].kind = "element"
          /\ \A k \in DOMAIN tx : tx[k] = order[k + 1] /\ dom[tx[k]].kind = "text"

\* A text node was located behind a comment and an unknown node, next to a
\* located element.
C4_Witness ==
    /\ Located
    /\ DOMAIN element_nodes_to_patch # {}
    /\ \E k \in DOMAIN text_nodes_to_patch :
          /\ text_nodes_to_patch[k] > k + 2
          /\ \E n \in LiveNodes : dom[n].kind = "comment" /\ n < text_nodes_to_patch[k]
          /\ \E n \in LiveNodes : dom[n].kind = "other" /\ n < text_nodes_to_patch[k]

-----------------------------------------------------------------------------
(* Task::Single: a future boxed by SingleTask::new, wrapped by map_msg in  *)
(* an async block per call, and polled by next().                          *)

MaxMsg == 3
MaxMaps == 2
MaxCalls == 3

\* The function handed to map_msg; applied once per layer.
MapFn(msg) == msg + 10

RECURSIVE MappedMsg(_, _)
MappedMsg(msg, maps) == IF maps = 0 THEN msg ELSE MapFn(MappedMsg(msg, maps - 1))

Some(v) == <<"Some", v>>
None == <<"None">>

\* No patch() call is in use.
NoPatch ==
    /\ dom = <<>>
    /\ root = 0
    /\ program = FALSE
    /\ old_closures = EmptyMap
    /\ next_vdom_id = 1
    /\ patches = <<>>
    /\ target = NoTarget
    /\ pc = "idle"
    /\ i = 1
    /\ element_nodes_to_patch = EmptyMap
    /\ text_nodes_to_patch = EmptyMap
    /\ active_closures = EmptyMap
    /\ outcome = "none"
    /\ returned = EmptyMap
    /\ fault = ""
    /\ oplog = <<>>
    /\ created = EmptyMap
    /\ was_live = {}
    /\ tree0 = <<>>

\* Task::single(f).map_msg(..)..: the future has not been polled yet.
InitTask ==
    /\ NoPatch
    /\ NoRender
    /\ NoRelay
    /\ task_msg \in 1..MaxMsg
    /\ task_maps \in 0..MaxMaps
    /\ task_future \in {"async", "other"}
    /\ task_state = "pending"
    /\ task_caller = "idle"
    /\ task_results = <<>>
    /\ task_repolls = 0

\* What polling the boxed future after it returned Ready can do.  An async
\* block (every map_msg layer is one) panics; another Future impl may
\* panic, stay pending for ever or hand out its value again.
RepollOutcomes ==
    IF task_maps > 0 \/ task_future = "async"
    THEN {"panic"}
    ELSE {"panic", "pending", "ready"}

\* The work the future waits for gets done.
FutureReady ==
    /\ task_state = "pending"
    /\ task_state' = "ready"
    /\ UNCHANGED <<task_msg, task_maps, task_future, task_caller, task_results,
                   task_repolls>>
    /\ UNCHANGED <<domVars, relayVars, renderVars>>

\* SingleTask::next: let msg = self.task.as_mut().await; Some(msg)
\* The consumer calls next() and the future is polled.
CallNext ==
    /\ task_caller = "idle"
    /\ Len(task_results) < MaxCalls
    /\ \/ /\ task_state = "pending"
          /\ task_caller' = "awaiting"
          /\ UNCHANGED <<task_state, task_results, task_repolls>>
       \/ /\ task_state = "ready"
          /\ task_state' = "completed"
          /\ task_results' = Append(task_results, Some(MappedMsg(task_msg, task_maps)))
          /\ UNCHANGED <<task_caller, task_repolls>>
       \/ /\ task_state = "completed"
          /\ task_repolls' = task_repolls + 1
          /\ \E o \in RepollOutcomes :
                CASE o = "panic" ->
                        /\ task_caller' = "panicked"
                        /\ task_results' = Append(task_results, <<"panic">>)
                  [] o = "pending" ->
                        /\ task_caller' = "stuck"
                        /\ UNCHANGED task_results
                  [] o = "ready" ->
                        /\ task_caller' = "idle"
                        /\ task_results' = Append(task_results,
                                                  Some(MappedMsg(task_msg, task_maps)))
          /\ UNCHANGED task_state
    /\ UNCHANGED <<task_msg, task_maps, task_future>>
    /\ UNCHANGED <<domVars, relayVars, renderVars>>

\* The awaited future is polled again once it was woken.
Resume ==
    /\ task_caller = "awaiting"
    /\ task_state = "ready"
    /\ task_state' = "completed"
    /\ task_caller' = "idle"
    /\ task_results' = Append(task_results, Some(MappedMsg(task_msg, task_maps)))
    /\ UNCHANGED <<task_msg, task_maps, task_future, task_repolls>>
    /\ UNCHANGED <<domVars, relayVars, renderVars>>

NextTask == FutureReady \/ CallNext \/ Resume

SpecTask == InitTask /\ [][NextTask]_vars

(* C10: over any sequence of next() calls on a single task the first call  *)
(* returns Some(msg), every later call returns no further outcome, and the *)
(* finished future is not polled again.                                    *)
C10_SingleYieldsOnce ==
    /\ Len(task_results) >= 1 => task_results[1] = Some(MappedMsg(task_msg, task_maps))
    /\ \A k \in 2..Len(task_results) : task_results[k] = None
    /\ task_repolls = 0

-----------------------------------------------------------------------------
(* A reconciliation cycle: the live tree is established from T1, the       *)
(* patches are the diff of T1 and T2, and the result is compared with T2.  *)

\* The number of indexed nodes of a declarative tree.
RECURSIVE NodeCount(_)
RECURSIVE NodeCountOfChildren(_, _)
NodeCount(v) == 1 + NodeCountOfChildren(v.children, 1)
NodeCountOfChildren(cs, k) ==
    IF k > Len(cs) THEN 0 ELSE NodeCount(cs[k]) + NodeCountOfChildren(cs, k + 1)

AttrNames(as) == {as[k].name : k \in DOMAIN as}
AttrValue(as, n) == (CHOOSE k \in DOMAIN as : as[k].name = n)

\* The diff collaborator: patches addressed by the pre-order index of the
\* old tree; an element's own patches come before those of its children.
RECURSIVE diff_recursive(_, _, _)
RECURSIVE diff_children(_, _, _, _, _)
diff_recursive(old, new, cur) ==
    IF old.kind = "text" /\ new.kind = "text"
    THEN [patches |-> IF old.text # new.text THEN <<ChangeText(cur, new.text)>> ELSE <<>>,
          cur |-> cur + 1]
    ELSE IF old.kind # new.kind \/ old.tag # new.tag
    THEN [patches |-> <<Replace(cur, new)>>, cur |-> cur + NodeCount(old)]
    ELSE LET added == SelectSeq(new.attrs, LAMBDA a :
                          \A k \in DOMAIN old.attrs : old.attrs[k] # a)
             removed == SelectSeq([k \in DOMAIN old.attrs |-> old.attrs[k].name],
                                  LAMBDA n : n \notin AttrNames(new.attrs))
             nold == Len(old.children)
             nnew == Len(new.children)
             own == (IF added # <<>> THEN <<AddAttributes(cur, added)>> ELSE <<>>)
                    \o (IF removed # <<>> THEN <<RemoveAttributes(cur, removed)>> ELSE <<>>)
                    \o (IF nnew > nold
                        THEN <<AppendChildren(cur, SubSeq(new.children, nold + 1, nnew))>>
                        ELSE <<>>)
                    \o (IF nnew < nold THEN <<TruncateChildren(cur, nnew)>> ELSE <<>>)
             below == diff_children(old.children, new.children, 1, cur + 1, <<>>)
         IN [patches |-> own \o below.patches, cur |-> below.cur]
diff_children(olds, news, k, cur, acc) ==
    IF k > Len(olds) THEN [patches |-> acc, cur |-> cur]
    ELSE IF k > Len(news)
    THEN diff_children(olds, news, k + 1, cur + NodeCount(olds[k]), acc)
    ELSE LET d == diff_recursive(olds[k], news[k], cur)
         IN diff_children(olds, news, k + 1, d.cur, acc \o d.patches)

diff(old, new) == diff_recursive(old, new, 0).patches

ClassDiv(c) == VElement("div", <<Attr("class", Simple(c))>>, <<>>)

RoundChildShapes ==
    {VText("a"), VText("b"), PlainDiv(<<VText("a")>>), ClassDiv("x"),
     VElement("span", <<>>, <<>>)}

RoundTrees == {PlainDiv(cs) : cs \in SeqsUpTo(RoundChildShapes, MaxKids)}

InitRound ==
    \E old \in RoundTrees, new \in RoundTrees :
        Established(old, TRUE, diff(old, new), new)

SpecRound == InitRound /\ [][Next]_vars

\* Markup of the live tree: tags, attributes and text in document order;
\* the separators between text nodes and the marker attribute are left out.
RECURSIVE LiveMarkup(_, _)
RECURSIVE LiveMarkupOfChildren(_, _, _)
LiveMarkup(d, n) ==
    CASE d[n].kind = "element" ->
            <<[t |-> "open", tag |-> d[n].tag, attrs |-> d[n].attrs]>>
               \o LiveMarkupOfChildren(d, d[n].kids, 1)
               \o <<[t |-> "close", tag |-> d[n].tag, attrs |-> EmptyMap]>>
      [] d[n].kind = "text" -> <<[t |-> "text", tag |-> d[n].text, attrs |-> EmptyMap]>>
      [] OTHER -> <<>>
LiveMarkupOfChildren(d, kids, j) ==
    IF j > Len(kids) THEN <<>>
    ELSE LiveMarkup(d, kids[j]) \o LiveMarkupOfChildren(d, kids, j + 1)

\* The rendering of a declarative tree, to the same tokens.
RECURSIVE RenderMarkup(_)
RECURSIVE RenderMarkupOfChildren(_, _)
RenderMarkup(v) ==
    IF v.kind = "element"
    THEN <<[t |-> "open", tag |-> v.tag, attrs |-> PlainAttrs(v.attrs, EmptyMap)]>>
            \o RenderMarkupOfChildren(v.children, 1)
            \o <<[t |-> "close", tag |-> v.tag, attrs |-> EmptyMap]>>
    ELSE <<[t |-> "text", tag |-> v.text, attrs |-> EmptyMap]>>
RenderMarkupOfChildren(cs, k) ==
    IF k > Len(cs) THEN <<>>
    ELSE RenderMarkup(cs[k]) \o RenderMarkupOfChildren(cs, k + 1)

(* C1: once the patches of diff(T1, T2) were applied to the live tree of   *)
(* T1, the markup of the live tree is the rendering of T2.                 *)
C1_RoundTrip ==
    (pc = "done" /\ outcome = "ok") => LiveMarkup(dom, root) = RenderMarkup(target)

-----------------------------------------------------------------------------
(* Task::Recurring: an unbounded channel read by next(); every map_msg     *)
(* spawns a relay loop that reads the task below it and sends f(msg) into  *)
(* a new channel.  Layer 0 is the channel of the producer, layer k the     *)
(* channel the k-th relay sends into; the consumer reads the top layer.    *)

MaxSrc == 2

Lift(q, n) == [j \in DOMAIN q |-> MappedMsg(q[j], n)]

\* UnboundedSender::start_send on an open channel: the value is queued last.
relay_send_front(q, v) == <<v>> \o q
relay_send(q, v) == Append(q, v)

\* The receiving half of layer k was dropped.
ReceiverDropped(k) == k = task_maps /\ rec_consumer = "dropped"

\* Mutant: a relay that left its loop keeps its sender.
SenderClosed_source_only(k) == k = 0 /\ rec_closed

\* Every sender of layer k was dropped: receiver.next() yields None once
\* the queue is empty.
SenderClosed(k) == IF k = 0 THEN rec_closed ELSE rec_relay[k] = "ended"

\* Task::Recurring(..).map_msg(f)..: nothing was sent yet, every relay runs.
InitRecurring ==
    /\ NoPatch
    /\ NoRender
    /\ task_msg = 0
    /\ task_maps \in 0..MaxMaps
    /\ task_future = "other"
    /\ task_state = "completed"
    /\ task_caller = "recurring"
    /\ task_results = <<>>
    /\ task_repolls = 0
    /\ rec_source \in SeqsUpTo(1..MaxMsg, MaxSrc)
    /\ rec_sent = 0
    /\ rec_closed = FALSE
    /\ rec_chan = [k \in 0..task_maps |-> <<>>]
    /\ rec_relay = [k \in 1..task_maps |-> "running"]
    /\ rec_consumer = "live"
    /\ rec_delivered = <<>>

\* The producer sends its next value into the source channel.
Produce ==
    /\ rec_consumer # "none"
    /\ ~rec_closed
    /\ rec_sent < Len(rec_source)
    /\ rec_sent' = rec_sent + 1
    /\ rec_chan' = IF ReceiverDropped(0) THEN rec_chan
                   ELSE [rec_chan EXCEPT ![0] = Append(@, rec_source[rec_sent + 1])]
    /\ UNCHANGED <<rec_source, rec_closed, rec_relay, rec_consumer, rec_delivered>>
    /\ UNCHANGED <<domVars, taskVars, renderVars>>

\* The producer is done and drops its sender: the source is exhausted.
CloseSource ==
    /\ rec_consumer # "none"
    /\ ~rec_closed
    /\ rec_sent = Len(rec_source)
    /\ rec_closed' = TRUE
    /\ UNCHANGED <<rec_source, rec_sent, rec_chan, rec_relay, rec_consumer,
                   rec_delivered>>
    /\ UNCHANGED <<domVars, taskVars, renderVars>>

\* One iteration of the loop spawned by RecurringTask::map_msg:
\*   while let Some(msg) = self.next().await {
\*       tx.start_send(f(msg)).expect("must send"); }
RelayStep(k) ==
    /\ rec_relay[k] = "running"
    /\ \/ /\ rec_chan[k - 1] # <<>>
          /\ IF ReceiverDropped(k)
             THEN /\ rec_relay' = [rec_relay EXCEPT ![k] = "panicked"]
                  /\ rec_chan' = [rec_chan EXCEPT ![k - 1] = Tail(@)]
             ELSE /\ rec_chan' = [rec_chan EXCEPT
                                     ![k - 1] = Tail(@),
                                     ![k] = relay_send(@, MapFn(Head(rec_chan[k - 1])))]
                  /\ UNCHANGED rec_relay
       \/ /\ rec_chan[k - 1] = <<>>
          /\ SenderClosed(k - 1)
          /\ rec_relay' = [rec_relay EXCEPT ![k] = "ended"]
          /\ UNCHANGED rec_chan
    /\ UNCHANGED <<rec_source, rec_sent, rec_closed, rec_consumer, rec_delivered>>
    /\ UNCHANGED <<domVars, taskVars, renderVars>>

Relay == \E k \in DOMAIN rec_relay : RelayStep(k)

\* RecurringTask::next: self.receiver.next().await, on the top layer.
ConsumerNext ==
    /\ rec_consumer = "live"
    /\ \/ /\ rec_chan[task_maps] # <<>>
          /\ rec_delivered' = Append(rec_delivered, Head(rec_chan[task_maps]))
          /\ rec_chan' = [rec_chan EXCEPT ![task_maps] = Tail(@)]
          /\ UNCHANGED rec_consumer
       \/ /\ rec_chan[task_maps] = <<>>
          /\ SenderClosed(task_maps)
          /\ rec_consumer' = "ended"
          /\ UNCHANGED <<rec_chan, rec_delivered>>
    /\ UNCHANGED <<rec_source, rec_sent, rec_closed, rec_relay>>
    /\ UNCHANGED <<domVars, taskVars, renderVars>>

\* The consumer drops the task, and with it the receiver of the top layer.
ConsumerDrop ==
    /\ rec_consumer = "live"
    /\ rec_consumer' = "dropped"
    /\ UNCHANGED <<rec_source, rec_sent, rec_closed, rec_chan, rec_relay,
                   rec_delivered>>
    /\ UNCHANGED <<domVars, taskVars, renderVars>>

NextRelay == Produce \/ CloseSource \/ Relay \/ ConsumerNext \/ ConsumerDrop

InitRelay == InitTask \/ InitRecurring

SpecRelay == InitRelay /\ [][NextTask \/ NextRelay]_vars

\* What is queued at or below layer k, as layer k will hold it.
RECURSIVE Pipeline(_)
Pipeline(k) == IF k = 0 THEN rec_chan[0] ELSE rec_chan[k] \o Lift(Pipeline(k - 1), 1)

(* C11: a mapped single task yields f(msg) as its outcome; a mapped        *)
(* recurring task hands the consumer f(m1), f(m2), .. in the order of the  *)
(* source: what was delivered and what is still queued is exactly the      *)
(* mapped values sent so far, and all of them once next() returned None.   *)
C11_MapPreservesOrder ==
    /\ (rec_consumer = "none" /\ Len(task_results) >= 1)
          => task_results[1] = Some(MappedMsg(task_msg, task_maps))
    /\ rec_consumer \in {"live", "ended"}
          => rec_delivered \o Pipeline(task_maps)
                = Lift(SubSeq(rec_source, 1, rec_sent), task_maps)
    /\ rec_consumer = "ended" => rec_delivered = Lift(rec_source, task_maps)
    /\ rec_consumer = "dropped"
          => rec_delivered = Lift(SubSeq(rec_source, 1, Len(rec_delivered)), task_maps)

C11_Witness ==
    /\ rec_consumer = "ended"
    /\ task_maps = MaxMaps
    /\ Len(rec_delivered) = MaxSrc
    /\ rec_delivered[1] # rec_delivered[2]

(* C12: after the consumer dropped a mapped recurring task, no relay loop  *)
(* fails: each keeps taking source values until the source is exhausted.   *)
C12_RelaySurvivesDrop ==
    \A k \in DOMAIN rec_relay : rec_relay[k] # "panicked"

-----------------------------------------------------------------------------
(* The renderer (crates/sauron-core/src/render.rs): a declarative tree is  *)
(* written to a buffer.  The buffer is the sequence of the pieces written; *)
(* an attribute carries a sequence of values.  The feature with-measure,   *)
(* off by default, is not modelled.                                        *)

MaxAttrs == 3
MaxDepth == 2

Tok(t, s) == [t |-> t, s |-> s]
Space == Tok("sp", " ")

StyleValue(decls) == [type |-> "style", v |-> decls]
RAttr(n, vals) == [name |-> n, value |-> vals]
class(c) == RAttr("class", <<Simple(c)>>)
attr(n, v) == RAttr(n, <<Simple(v)>>)
style(decls) == RAttr("style", <<StyleValue(decls)>>)
on_click == RAttr("click", <<EventCallback>>)
\* classes_flag: the class names whose flag is true, as one class attribute.
classes_flag(pairs) ==
    LET kept == SelectSeq(pairs, LAMBDA pr : pr[2])
    IN RAttr("class", [k \in DOMAIN kept |-> Simple(kept[k][1])])

\* mt_dom::merge_attributes_of_same_name: one attribute per name, in the
\* order the names first appear, holding the values of all of them in order.
RECURSIVE merge_attributes_of_same_name(_, _)
merge_attributes_of_same_name(as, merged) ==
    IF as = <<>> THEN merged
    ELSE LET same == {k \in DOMAIN merged : merged[k].name = as[1].name}
         IN merge_attributes_of_same_name(Tail(as),
                IF same = {} THEN Append(merged, as[1])
                ELSE [k \in DOMAIN merged |->
                        IF k \in same
                        THEN RAttr(merged[k].name, merged[k].value \o as[1].value)
                        ELSE merged[k]])

\* Render for AttributeValue.
render_attribute_value(av) ==
    CASE av.type = "simple" -> <<Tok("value", av.v)>>
      [] av.type = "style" ->
            LET RECURSIVE decls(_)
                decls(k) == IF k > Len(av.v) THEN <<>>
                            ELSE <<Tok("decl", av.v[k]), Tok("semi", ";")>> \o decls(k + 1)
            IN decls(1)
      [] OTHER -> <<>>

\* Render for Attribute: name=" values ".  A plain value that is not the
\* first value and is not a style is preceded by a space.
RECURSIVE render_values_unspaced(_, _)
render_values_unspaced(vals, k) ==
    IF k > Len(vals) THEN <<>>
    ELSE (IF vals[k].type = "event" THEN <<>> ELSE render_attribute_value(vals[k]))
         \o render_values_unspaced(vals, k + 1)

RECURSIVE render_values(_, _)
render_values(vals, k) ==
    IF k > Len(vals) THEN <<>>
    ELSE (IF vals[k].type = "event" THEN <<>>
          ELSE (IF k - 1 > 0 /\ vals[k].type # "style" THEN <<Space>> ELSE <<>>)
               \o render_attribute_value(vals[k]))
         \o render_values(vals, k + 1)

render_attribute(a) ==
    <<Tok("name", a.name), Tok("eq", "=\"")>> \o render_values(a.value, 1)
        \o <<Tok("quote", "\"")>>

RECURSIVE render_attributes(_, _)
render_attributes(merged, k) ==
    IF k > Len(merged) THEN <<>>
    ELSE <<Space>> \o render_attribute(merged[k]) \o render_attributes(merged, k + 1)

\* "    ".repeat(n)
Indent(n) == [k \in 1..n |-> Tok("indent", "    ")]

\* The lone text child: first_child.unwrap().render_with_indent(..), with
\* nothing written before it.
render_lone_text_indented(text, indent) ==
    <<Tok("nl", "\n")>> \o Indent(indent + 1) \o <<Tok("text", text)>>
render_lone_text(text, indent) == <<Tok("text", text)>>

\* Render for Node and Element.
RECURSIVE render_with_indent(_, _)
RECURSIVE render_children(_, _, _)
render_with_indent(v, indent) ==
    IF v.kind = "text" THEN <<Tok("text", v.text)>>
    ELSE LET children == v.children
             is_first_child_text_node ==
                 IF Len(children) >= 1 THEN children[1].kind = "text" ELSE FALSE
             is_lone_child_text_node ==
                 Len(children) = 1 /\ is_first_child_text_node
         IN <<Tok("open", v.tag)>>
               \o render_attributes(merge_attributes_of_same_name(v.attrs, <<>>), 1)
               \o <<Tok("gt", ">")>>
               \o (IF is_lone_child_text_node
                   THEN render_lone_text(children[1].text, indent)
                   ELSE render_children(children, 1, indent))
               \o (IF ~is_lone_child_text_node /\ children # <<>>
                   THEN <<Tok("nl", "\n")>> \o Indent(indent)
                   ELSE <<>>)
               \o <<Tok("close", v.tag)>>
render_children(children, k, indent) ==
    IF k > Len(children) THEN <<>>
    ELSE <<Tok("nl", "\n")>> \o Indent(indent + 1)
            \o render_with_indent(children[k], indent + 1)
            \o render_children(children, k + 1, indent)

\* Render::render
render(v) == render_with_indent(v, 0)

RenderAttrs ==
    {class("frame"), class("component"),
     classes_flag(<<<<"component", TRUE>>, <<"layer", FALSE>>>>),
     classes_flag(<<<<"layer", FALSE>>>>),
     attr("id", "x"), on_click,
     style(<<"color:red">>), style(<<"margin:0", "top:1">>)}

Leaf(t, cs) == VElement(t, <<>>, cs)

RECURSIVE RenderNodes(_)
RenderNodes(depth) ==
    IF depth = 0 THEN {VText("a"), Leaf("p", <<>>)}
    ELSE LET below == RenderNodes(depth - 1)
         IN below \cup {Leaf("p", cs) : cs \in SeqsUpTo(below, MaxKids) \ {<<>>}}

RenderViews ==
    {VElement("div", as, cs) : as \in SeqsUpTo(RenderAttrs, MaxAttrs),
                               cs \in SeqsUpTo(RenderNodes(MaxDepth - 1), MaxKids)}

InitRender ==
    /\ NoPatch
    /\ NoTask
    /\ NoRelay
    /\ view \in RenderViews
    /\ buffer = <<>>

\* view.render(&mut buffer)
Render ==
    /\ view # <<>>
    /\ buffer = <<>>
    /\ buffer' = render(view)
    /\ UNCHANGED view
    /\ UNCHANGED <<domVars, taskVars, relayVars>>

SpecRender == InitRender /\ [][Render]_vars

Rendered == view # <<>> /\ buffer # <<>>

\* The opening tag of an element as the three cases of the layout put it.
OpenTag(v) ==
    <<Tok("open", v.tag)>>
        \o render_attributes(merge_attributes_of_same_name(v.attrs, <<>>), 1)
        \o <<Tok("gt", ">")>>

RECURSIVE Layout(_, _)
RECURSIVE LayoutLines(_, _, _)
Layout(v, depth) ==
    CASE v.kind = "text" -> <<Tok("text", v.text)>>
      [] v.kind = "element" /\ v.children = <<>> ->
            OpenTag(v) \o <<Tok("close", v.tag)>>
      [] v.kind = "element" /\ Len(v.children) = 1 /\ v.children[1].kind = "text" ->
            OpenTag(v) \o <<Tok("text", v.children[1].text), Tok("close", v.tag)>>
      [] OTHER ->
            OpenTag(v) \o LayoutLines(v.children, 1, depth + 1)
                \o <<Tok("nl", "\n")>> \o Indent(depth) \o <<Tok("close", v.tag)>>
LayoutLines(cs, k, depth) ==
    IF k > Len(cs) THEN <<>>
    ELSE <<Tok("nl", "\n")>> \o Indent(depth) \o Layout(cs[k], depth)
            \o LayoutLines(cs, k + 1, depth)

(* C13: an element whose children are exactly one text node has the text  *)
(* right after the opening tag and the closing tag right after the text;   *)
(* any other element with children has each child on a line of its own    *)
(* indented by four spaces per depth level and the closing tag on a line   *)
(* of its own at the element's depth; an element without children has the *)
(* closing tag right after the opening tag.                                *)
C13_InlineLoneText == Rendered => buffer = Layout(view, 0)

C13_Witness ==
    /\ Rendered
    /\ Len(view.children) = 2
    /\ \E k \in DOMAIN view.children :
          /\ view.children[k].kind = "element"
          /\ Len(view.children[k].children) = 1
          /\ view.children[k].children[1].kind = "text"
    /\ \E k \in DOMAIN view.children : view.children[k].kind = "text"

\* The values of the attributes called n, in the order they were supplied.
RECURSIVE Supplied(_, _)
Supplied(as, n) ==
    IF as = <<>> THEN <<>>
    ELSE (IF as[1].name = n THEN as[1].value ELSE <<>>) \o Supplied(Tail(as), n)

\* The positions of the buffer's first opening tag where attribute n starts.
TagEnd == CHOOSE p \in DOMAIN buffer : buffer[p].t = "gt" /\ \A q \in 1..(p - 1) : buffer[q].t # "gt"
Starts(n) == {p \in 1..TagEnd : buffer[p] = Tok("name", n)}

\* What is written between the quotes of the attribute starting at p.
Quoted(p) ==
    LET q == CHOOSE q \in (p + 2)..TagEnd :
                 buffer[q].t = "quote" /\ \A r \in (p + 2)..(q - 1) : buffer[r].t # "quote"
    IN SubSeq(buffer, p + 2, q - 1)

RECURSIVE SpaceJoined(_, _)
SpaceJoined(vals, k) ==
    IF k > Len(vals) THEN <<>>
    ELSE (IF k > 1 THEN <<Space>> ELSE <<>>) \o <<Tok("value", vals[k].v)>>
         \o SpaceJoined(vals, k + 1)

RECURSIVE SemicolonEnded(_)
SemicolonEnded(decls) ==
    IF decls = <<>> THEN <<>>
    ELSE <<Tok("decl", decls[1]), Tok("semi", ";")>> \o SemicolonEnded(Tail(decls))

RECURSIVE Declarations(_)
Declarations(vals) ==
    IF vals = <<>> THEN <<>> ELSE vals[1].v \o Declarations(Tail(vals))

(* C14: an element that carries class attributes is rendered with exactly  *)
(* one class attribute, whose value is the supplied class values in their  *)
(* order joined by single spaces (false-flagged classes left out),         *)
(* whatever other attributes there are and wherever they stand; style      *)
(* declarations are each ended by ';' with no space between them.          *)
C14_MergedAttributes ==
    Rendered =>
        /\ \A n \in {"class", "style"} :
              Cardinality(Starts(n)) =
                  IF \E k \in DOMAIN view.attrs : view.attrs[k].name = n THEN 1 ELSE 0
        /\ \A p \in Starts("class") :
              Quoted(p) = SpaceJoined(Supplied(view.attrs, "class"), 1)
        /\ \A p \in Starts("style") :
              Quoted(p) = SemicolonEnded(Declarations(Supplied(view.attrs, "style")))

C14_Witness ==
    /\ Rendered
    /\ Len(view.attrs) = 3
    /\ view.attrs[1] = class("frame")
    /\ view.attrs[2].name # "class"
    /\ view.attrs[3] = classes_flag(<<<<"component", TRUE>>, <<"layer", FALSE>>>>)

-----------------------------------------------------------------------------
(* Locate-then-apply.                                                      *)

\* The node that held index idx in the tree patch() was called on; 0: none.
Located0(idx) ==
    LET order == PreOrder(tree0.dom, tree0.root)
    IN IF idx < Len(order) THEN order[idx + 1] ELSE 0

\* The nodes this step changed, of those that existed before it.
Changed == {m \in DOMAIN dom : dom'[m] # dom[m]}

IsPrefix(s, t) == Len(s) <= Len(t) /\ s = SubSeq(t, 1, Len(s))

\* The step did to node n what patch p asks for, and touched nothing but n,
\* its children and its parent.
EffectOn(p, n) ==
    CASE p.kind = "ChangeText" ->
            /\ dom'[n].text = p.arg
            /\ Changed \subseteq {n} /\ root' = root
      [] p.kind = "AddAttributes" ->
            /\ \A k \in DOMAIN p.arg :
                  p.arg[k].name \notin {"", "value", "checked", "inner_html"}
                     => p.arg[k].name \in DOMAIN dom'[n].attrs
            /\ Changed \subseteq {n} /\ root' = root
      [] p.kind = "RemoveAttributes" ->
            /\ \A k \in DOMAIN p.arg : p.arg[k] \notin DOMAIN dom'[n].attrs
            /\ Changed \subseteq {n} /\ root' = root
      [] p.kind = "AppendChildren" ->
            /\ Len(dom'[n].kids) = Len(dom[n].kids) + Len(p.arg)
            /\ IsPrefix(dom[n].kids, dom'[n].kids)
            /\ Changed \subseteq {n} /\ root' = root
      [] p.kind = "TruncateChildren" ->
            /\ IsPrefix(dom'[n].kids, dom[n].kids)
            /\ Changed \subseteq {n} \cup Range(dom[n].kids) /\ root' = root
      [] p.kind = "Replace" ->
            /\ Changed \subseteq {n, Parent(dom, n)}
            /\ IF n = root THEN root' > Len(dom)
               ELSE /\ root' = root
                    /\ Parent(dom, n) # 0 => n \notin Range(dom'[Parent(dom, n)].kids)

(* C15: patch() resolves every target in one traversal before it changes   *)
(* anything, then applies the patches in the order of the list, each to    *)
(* the node that held its node_idx in the tree as patch() was called,      *)
(* whatever earlier patches of the call added, removed or replaced.        *)
C15_LocateThenApply ==
    /\ [](pc \in {"loop", "done"} /\ fault # "Unsupported root node type" =>
            /\ \A k \in DOMAIN element_nodes_to_patch :
                  element_nodes_to_patch[k] = Located0(k)
            /\ \A k \in DOMAIN text_nodes_to_patch :
                  text_nodes_to_patch[k] = Located0(k))
    /\ [][/\ pc = "start" =>
                dom' = dom /\ root' = root /\ old_closures' = old_closures /\ i' = i
          /\ pc = "loop" =>
                /\ element_nodes_to_patch' = element_nodes_to_patch
                /\ text_nodes_to_patch' = text_nodes_to_patch
                /\ patches' = patches
                /\ i' \in {i, i + 1}
          /\ (Applying /\ Applied) =>
                /\ Located0(CurPatch.node_idx) # 0
                /\ EffectOn(CurPatch, Located0(CurPatch.node_idx))]_vars

\* The second patch changed the text of a node that the first patch had
\* detached; its index names another node in the tree as it is now.
C15_Witness ==
    /\ pc = "loop" /\ i = 3
    /\ patches[1].kind = "Replace"
    /\ patches[2].kind = "ChangeText"
    /\ LET n == Located0(patches[2].node_idx)
           now == PreOrder(dom, root)
       IN /\ n # 0
          /\ dom[n].text = patches[2].arg
          /\ n \notin LiveNodes
          /\ patches[2].node_idx < Len(now)
          /\ dom[now[patches[2].node_idx + 1]].kind = "text"

-----------------------------------------------------------------------------
(* The steps of a Replace patch.                                           *)

RetireCalls == {"remove_event_listeners", "get_attribute:failed"}

ReplacingElement ==
    /\ Applying
    /\ CurPatch.kind = "Replace"
    /\ CurPatch.node_idx \in DOMAIN element_nodes_to_patch

(* C16: a Replace patch first retires the outgoing node, then builds the   *)
(* new subtree, then replaces the node in the host tree: when retire runs  *)
(* or fails, no new subtree and none of its callbacks has been created.    *)
C16_ReplaceRetiresFirst ==
    [][ReplacingElement =>
          /\ \A a, b \in DOMAIN oplog' :
                (oplog'[a] = "create_dom_node" /\ oplog'[b] \in RetireCalls) => b < a
          /\ (outcome' \in {"err", "panic"} /\ fault' # "replace_with")
                => /\ Len(dom') = Len(dom)
                   /\ next_vdom_id' = next_vdom_id
                   /\ created' = created]_vars

(* C17: once retire succeeded on an element, every (event, handle) pair of *)
(* every vdom_id of its subtree has been unregistered from the element     *)
(* that owns the id: no element of the subtree has a listener left, and    *)
(* the registry has no entry for any of those ids.                         *)
C17_RetireUnregistersSubtree ==
    [][(ReplacingElement /\ Applied) =>
          LET n == element_nodes_to_patch[CurPatch.node_idx]
          IN \A m \in Reach(dom, n) :
                /\ dom'[m].listeners = {}
                /\ dom[m].vdom_id # 0 => dom[m].vdom_id \notin DOMAIN old_closures']_vars

-----------------------------------------------------------------------------
(* Comment markers under TruncateChildren.                                 *)

TruncatingElement ==
    /\ Applying
    /\ CurPatch.kind = "TruncateChildren"
    /\ CurPatch.node_idx \in DOMAIN element_nodes_to_patch

CountOf(log, calls) == Cardinality({k \in DOMAIN log : log[k] \in calls})

(* C18: a TruncateChildren patch removes no comment child of its element   *)
(* from the live tree, and performs no retire or registry bookkeeping on a *)
(* comment child: retire is called once per child removed.                 *)
C18_CommentsLeftAlone ==
    [][TruncatingElement =>
          LET n == element_nodes_to_patch[CurPatch.node_idx]
              comments == {c \in Range(dom[n].kids) : dom[c].kind = "comment"}
          IN /\ comments \subseteq Range(dom'[n].kids)
             /\ Applied => CountOf(oplog', RetireCalls)
                              = Len(dom[n].kids) - Len(dom'[n].kids)]_vars

-----------------------------------------------------------------------------
(* The locator on a root of any kind.                                      *)

UnsupportedRootMsg == "Unsupported root node type"

InitLocateAny ==
    \E shape \in LocateRootShapes \cup {HOther}, ps \in LocatePatchLists :
        Established(shape, TRUE, ps, NoTarget)

SpecLocateAny == InitLocateAny /\ [][Next]_vars

(* C19: the locator skips a node that is neither element, text nor comment *)
(* without failing, be it the root of the traversal or a child, and be its *)
(* index one a patch refers to or not: the traversal never ends in a       *)
(* failure, and no such node is handed to a patch.                         *)
C19_UnsupportedSkipped ==
    /\ fault # UnsupportedRootMsg
    /\ \A k \in DOMAIN element_nodes_to_patch :
          dom[element_nodes_to_patch[k]].kind # "other"
    /\ \A k \in DOMAIN text_nodes_to_patch :
          dom[text_nodes_to_patch[k]].kind # "other"

-----------------------------------------------------------------------------
(* AddAttributes on elements of several tags.                              *)

AttrRootShapes ==
    {VElement("input", <<>>, <<>>),
     VElement("textarea", <<>>, <<VText("a")>>),
     ClickDiv(<<VText("a")>>),
     PlainDiv(<<VElement("input", <<Attr("class", Simple("c"))>>, <<>>)>>)}

AttrAlphabet ==
    {Attr("", Simple("x")),
     Attr("checked", SimpleBool(TRUE)),
     Attr("checked", Simple("yes")),
     Attr("value", Simple("v")),
     Attr("inner_html", FunctionCall("m")),
     Attr("class", Simple("x")),
     Attr("disabled", SimpleBool(TRUE)),
     Attr("click", EventCallback)}

AttrPatchLists ==
    {<<AddAttributes(idx, as)>> :
        idx \in 0..1, as \in SeqsUpTo(AttrAlphabet, MaxAttrs) \ {<<>>}}

InitAttrs ==
    \E shape \in AttrRootShapes, ps \in AttrPatchLists :
        Established(shape, TRUE, ps, NoTarget)

SpecAttrs == InitAttrs /\ [][Next]_vars

AddingAttributes ==
    /\ Applying /\ Applied
    /\ CurPatch.kind = "AddAttributes"
    /\ CurPatch.node_idx \in DOMAIN element_nodes_to_patch

\* What the claim says one attribute does to the element, children aside.
ExpectAttr(rec, a) ==
    CASE a.name = "" -> rec
      [] a.name = "checked" ->
            IF rec.tag = "input"
            THEN [rec EXCEPT !.checked = (a.value = SimpleBool(TRUE))]
            ELSE rec
      [] a.name = "value" ->
            IF rec.tag \in {"input", "textarea"}
            THEN [rec EXCEPT !.value = SimpleString(a.value)]
            ELSE rec
      [] a.name = "inner_html" -> rec
      [] OTHER -> [rec EXCEPT !.attrs = SetAttr(@, a.name, SimpleString(a.value))]

RECURSIVE ExpectAttrs(_, _, _)
ExpectAttrs(rec, as, k) ==
    IF k > Len(as) THEN rec ELSE ExpectAttrs(ExpectAttr(rec, as[k]), as, k + 1)

WithoutKids(rec) == [rec EXCEPT !.kids = <<>>]

\* Only the element changed, as the attributes say; the registry and the
\* closures collected so far are as they were.
AttributesFrame(n) ==
    /\ Changed \subseteq {n}
    /\ root' = root
    /\ old_closures' = old_closures
    /\ active_closures' = active_closures
    /\ created' = created
    /\ WithoutKids(dom'[n]) = WithoutKids(ExpectAttrs(dom[n], CurPatch.arg, 1))

ChildrenKept(n) == dom'[n].kids = dom[n].kids /\ Len(dom') = Len(dom)

\* The markup of the last inner_html attribute of the patch; "" when none.
LastMarkup(as) ==
    LET at == {k \in DOMAIN as : as[k].name = "inner_html"}
        last == CHOOSE k \in at : \A j \in at : j <= k
    IN IF as[last].value.type = "function" THEN as[last].value.v ELSE ""

(* C20 as stated: an AddAttributes patch changes of its element only what  *)
(* its attributes name (nothing for an empty name, the checked property    *)
(* for checked), and never the element's children, its other attributes or *)
(* the registry; it contributes no callbacks.                              *)
C20_AddAttributesFrame ==
    [][AddingAttributes =>
          LET n == element_nodes_to_patch[CurPatch.node_idx]
          IN AttributesFrame(n) /\ ChildrenKept(n)]_vars

(* C20, amended: as above, but an attribute named inner_html replaces the  *)
(* children of the element by the markup of its function-call value; the   *)
(* children are kept by a patch without such an attribute.                 *)
C20_AddAttributesFrameButInnerHtml ==
    [][AddingAttributes =>
          LET n == element_nodes_to_patch[CurPatch.node_idx]
              as == CurPatch.arg
          IN /\ AttributesFrame(n)
             /\ IF \E k \in DOMAIN as : as[k].name = "inner_html"
                THEN IF LastMarkup(as) = "" THEN dom'[n].kids = <<>>
                     ELSE /\ Len(dom'[n].kids) = 1
                          /\ dom'[n].kids[1] > Len(dom)
                          /\ dom'[dom'[n].kids[1]].kind = "text"
                          /\ dom'[dom'[n].kids[1]].text = LastMarkup(as)
                ELSE ChildrenKept(n)]_vars

\* An input got an empty-named attribute, checked = true and inner_html.
C20_Witness ==
    /\ pc = "loop" /\ i = 2
    /\ patches[1].kind = "AddAttributes"
    /\ {patches[1].arg[k].name : k \in DOMAIN patches[1].arg} = {"", "checked", "inner_html"}
    /\ dom[root].tag = "input"
    /\ dom[root].checked
    /\ dom[root].kids # <<>>
    /\ "" \notin DOMAIN dom[root].attrs

-----------------------------------------------------------------------------
(* AppendChildren and ChangeText.                                          *)

AppendingChildren ==
    /\ Applying /\ Applied
    /\ CurPatch.kind = "AppendChildren"
    /\ CurPatch.node_idx \in DOMAIN element_nodes_to_patch

\* The nodes this step added to the heap, and the closures of their ids.
Fresh == (Len(dom) + 1)..Len(dom')
FreshClosures ==
    LET ids == {dom'[m].vdom_id : m \in Fresh} \ {0}
    IN [id \in ids |-> created'[id]]

\* Host node m is the live node of declarative node v, children aside.
Builds1(m, v) ==
    /\ dom'[m].kind = v.kind
    /\ dom'[m].tag = v.tag
    /\ dom'[m].text = v.text
    /\ (dom'[m].listeners # {}) = (program /\ EventsOf(v.attrs) # <<>>)

(* C21: after AppendChildren(new_subtrees) on an element with children     *)
(* c1..ck its children are c1..ck followed by the live nodes built from    *)
(* new_subtrees in list order; the old registry is unchanged and the       *)
(* result of the patch is the union of the callbacks of the new subtrees.  *)
C21_AppendInOrder ==
    [][AppendingChildren =>
          LET n == element_nodes_to_patch[CurPatch.node_idx]
              before == dom[n].kids
              after == dom'[n].kids
              new == CurPatch.arg
          IN /\ Len(after) = Len(before) + Len(new)
             /\ SubSeq(after, 1, Len(before)) = before
             /\ \A j \in DOMAIN new :
                   /\ after[Len(before) + j] \in Fresh
                   /\ Builds1(after[Len(before) + j], new[j])
             /\ \A j \in 1..(Len(new) - 1) :
                   after[Len(before) + j] < after[Len(before) + j + 1]
             /\ \A m \in DOMAIN dom \ {n} : dom'[m] = dom[m]
             /\ old_closures' = old_closures
             /\ active_closures' = MapExtend(active_closures, FreshClosures)
             /\ (program /\ \E j \in DOMAIN new : EventsOf(new[j].attrs) # <<>>)
                   => DOMAIN FreshClosures # {}]_vars

\* Two nodes were appended to an element that had a child, one of them with
\* a callback.
C21_Witness ==
    /\ pc = "loop" /\ i = 2
    /\ patches[1].kind = "AppendChildren"
    /\ patches[1].node_idx \in DOMAIN element_nodes_to_patch
    /\ LET n == element_nodes_to_patch[patches[1].node_idx]
       IN /\ n \in LiveNodes
          /\ Len(dom[n].kids) = 3
          /\ dom[dom[n].kids[2]].listeners # {}
          /\ dom[dom[n].kids[3]].text = NewText.text
    /\ DOMAIN active_closures # {}

ChangingText ==
    /\ Applying /\ Applied
    /\ CurPatch.kind = "ChangeText"
    /\ CurPatch.node_idx \in DOMAIN text_nodes_to_patch
    /\ CurPatch.node_idx \notin DOMAIN element_nodes_to_patch

(* C22: a ChangeText patch on a text node sets the content of that node to *)
(* new_text and leaves the shape of the tree, every other node, the old    *)
(* registry and the callbacks to return as they were.                      *)
C22_ChangeTextFrame ==
    [][ChangingText =>
          LET n == text_nodes_to_patch[CurPatch.node_idx]
          IN /\ dom' = [dom EXCEPT ![n].text = CurPatch.arg]
             /\ root' = root
             /\ old_closures' = old_closures
             /\ active_closures' = active_closures
             /\ created' = created]_vars

\* The text of a live text node was changed next to another text node.
C22_Witness ==
    /\ pc = "loop" /\ i = 2
    /\ patches[1].kind = "ChangeText"
    /\ patches[1].node_idx \in DOMAIN text_nodes_to_patch
    /\ LET n == text_nodes_to_patch[patches[1].node_idx]
       IN /\ dom[n].text = patches[1].arg
          /\ n \in LiveNodes
          /\ \E m \in LiveNodes \ {n} : dom[m].kind = "text" /\ dom[m].text # dom[n].text

-----------------------------------------------------------------------------
(* The corners of TruncateChildren and of a failing call.                  *)

(* C23: a TruncateChildren patch whose remaining_count is greater than the *)
(* number of child nodes of its element drops nothing: the subtraction     *)
(* does not underflow, no child is removed and the patch completes without *)
(* error.                                                                  *)
C23_TruncateNeverUnderflows ==
    [][(TruncatingElement
        /\ CurPatch.arg > Len(dom[element_nodes_to_patch[CurPatch.node_idx]].kids))
       => /\ Applied
          /\ outcome' = outcome
          /\ dom' = dom
          /\ old_closures' = old_closures]_vars

(* C24: when patch() ends with an error at the k-th patch, the callbacks   *)
(* of the Replace and AppendChildren patches applied before it are handed  *)
(* to the caller: every vdom_id marker that the call put on an element     *)
(* live after it has an entry in the registry of the caller.               *)
C24_CallbacksSurviveFailure ==
    [][(Applying /\ outcome' = "err")
       => \A id \in DOMAIN active_closures :
             id \in {dom'[n].vdom_id : n \in Reach(dom', root')}
                => /\ id \in DOMAIN old_closures' \cup DOMAIN returned'
                   /\ id \in DOMAIN returned' => returned'[id] = active_closures[id]]_vars

-----------------------------------------------------------------------------
(* A mapped recurring task whose consumer keeps calling next(), under fair *)
(* scheduling of the producer, the relay loops and the consumer.           *)

NextStream == Produce \/ CloseSource \/ Relay \/ ConsumerNext

FairStream ==
    /\ WF_vars(Produce)
    /\ WF_vars(CloseSource)
    /\ WF_vars(ConsumerNext)
    /\ \A k \in 1..MaxMaps : WF_vars(k \in DOMAIN rec_relay /\ RelayStep(k))

SpecStream == InitRecurring /\ [][NextStream]_vars /\ FairStream

(* C25: when the source of a mapped recurring task yields n values and     *)
(* ends, next() returns the n mapped values and then None; it never        *)
(* returns None while a source value is undelivered, and every relay loop  *)
(* terminates.                                                             *)
C25_EndOfStreamPropagates ==
    /\ [](rec_consumer = "ended" =>
             /\ rec_delivered = Lift(rec_source, task_maps)
             /\ rec_sent = Len(rec_source))
    /\ <>(/\ rec_consumer = "ended"
          /\ \A k \in DOMAIN rec_relay : rec_relay[k] = "ended")

\* Two relays have ended and the consumer got both values and then None.
C25_Witness ==
    /\ rec_consumer = "ended"
    /\ rec_closed
    /\ DOMAIN rec_relay = 1..MaxMaps
    /\ \A k \in DOMAIN rec_relay : rec_relay[k] = "ended"
    /\ Len(rec_delivered) = MaxSrc
    /\ \A k \in DOMAIN rec_chan : rec_chan[k] = <<>>

====
